---- MODULE Spec2Model ----
(***************************************************************************)
(* Model of app/core/scanner.py: PortScanner.scan_port, the threaded       *)
(* PortScanner.scan_host with its worker closure, and PortScanner.stop_scan *)
(* called from another thread; of app/core/service_detector.py:            *)
(* ServiceDetector.detect_service with the stages it runs, its socket      *)
(* reads and its banner and web-technology matching; of the scan tabs of   *)
(* app/gui/tabs (start, stop, worker); and of ConfigManager in             *)
(* app/gui/managers/configuration_manager.py.                              *)
(***************************************************************************)
EXTENDS Integers, Sequences, FiniteSets, TLC

VARIABLES
    max_threads,   \* self.max_threads
    ports,         \* the ports argument of scan_host (a list of distinct ports)
    callback,      \* the callback argument: "none" or "given"
    stop_flag,     \* self.stop_flag (threading.Event): TRUE when set
    port_queue,    \* port_queue (queue.Queue), head first
    results,       \* the results list of scan_host
    result_lock,   \* result_lock: 0 when free, else the worker holding it
    nthreads,      \* len(threads): worker threads started so far
    joined,        \* threads the join loop has already waited for
    pc_main,       \* position of the thread that calls scan_host
    wpc,           \* position of each worker thread
    wport,         \* the local `port` of each worker (0: none)
    wresult,       \* the local `result` of each worker (<<>>: none)
    conn,          \* what the connect attempt met, while scan_port's result is new
    observed,      \* workers that have read stop_flag.is_set() as True
    appAfterStop,  \* per worker: appends made while the flag was set
    stopDuring,    \* stop_scan() was called while scan_host was running
    resultsAtStop, \* the results list at the first such stop_scan()
    stopBefore,    \* stop_scan() was called before scan_host cleared the flag
    cbCount,       \* per port: number of callback invocations
    cbRaised,      \* ports whose callback invocation raised
    lookedUp       \* ports for which getservbyport was called

vars == <<max_threads, ports, callback, stop_flag, port_queue, results,
          result_lock, nthreads, joined, pc_main, wpc, wport, wresult, conn,
          observed, appAfterStop, stopDuring, resultsAtStop, stopBefore,
          cbCount, cbRaised, lookedUp>>

\* Bounds of the model.
MaxPorts == 2
MaxThreads == 2

\* The ports a scan may be asked for: some with an entry in the services
\* database and some without.
PortUniverse == 2..(MaxPorts + 1)
Workers == 1..MaxThreads

\* What a TCP connect attempt can meet.
ConnectOutcomes ==
    {"success", "refused", "reset", "unreachable", "timeout", "dns_failure"}

Min(a, b) == IF a < b THEN a ELSE b

RECURSIVE SortedSeq(_)
SortedSeq(S) ==
    IF S = {} THEN <<>>
    ELSE LET m == CHOOSE x \in S : \A y \in S : x <= y
         IN <<m>> \o SortedSeq(S \ {m})

IsPrefix(s, t) == Len(s) <= Len(t) /\ SubSeq(t, 1, Len(s)) = s

\* sock.connect_ex((host, port)) under sock.settimeout(self.timeout): the
\* errno of the C-level connect is returned (0 on success, EAGAIN when the
\* timeout expires); a failed name resolution raises socket.gaierror.
connect_ex(outcome) ==
    CASE outcome = "success"     -> [raised |-> FALSE, code |-> 0, msg |-> ""]
      [] outcome = "refused"     -> [raised |-> FALSE, code |-> 111, msg |-> ""]
      [] outcome = "reset"       -> [raised |-> FALSE, code |-> 104, msg |-> ""]
      [] outcome = "unreachable" -> [raised |-> FALSE, code |-> 113, msg |-> ""]
      [] outcome = "timeout"     -> [raised |-> FALSE, code |-> 11, msg |-> ""]
      [] outcome = "dns_failure" ->
            [raised |-> TRUE, code |-> 0 - 3,
             msg |-> "[Errno -3] Temporary failure in name resolution"]

\* socket.getservbyport(port): the name in the services database, or OSError.
getservbyport(port) ==
    CASE port = 1 -> [raised |-> FALSE, name |-> "tcpmux"]
      [] port = 2 -> [raised |-> FALSE, name |-> "nbp"]
      [] port = 4 -> [raised |-> FALSE, name |-> "echo"]
      [] OTHER    -> [raised |-> TRUE, name |-> ""]

\* A worker that treats every nonzero connect_ex result as an exception.
scan_port_RaiseOnNonzero(port, outcome) ==
    LET r == connect_ex(outcome) IN
    IF r.raised \/ r.code # 0
    THEN [port |-> port, state |-> "error", service |-> "", error |-> r.msg]
    ELSE LET s == getservbyport(port) IN
         [port |-> port, state |-> "open",
          service |-> IF s.raised THEN "unknown" ELSE s.name]

\* A scan_port without the 'error' entry in its except branch.
scan_port_NoDetail(port, outcome) ==
    LET r == connect_ex(outcome) IN
    IF r.raised
    THEN [port |-> port, state |-> "error", service |-> ""]
    ELSE IF r.code = 0
         THEN LET s == getservbyport(port) IN
              [port |-> port, state |-> "open",
               service |-> IF s.raised THEN "unknown" ELSE s.name]
         ELSE [port |-> port, state |-> "closed", service |-> ""]

\* PortScanner.scan_port, given what the connect attempt meets.
scan_port(port, outcome) ==
    LET r == connect_ex(outcome) IN
    IF r.raised
    THEN [port |-> port, state |-> "error", service |-> "", error |-> r.msg]
    ELSE IF r.code = 0
         THEN LET s == getservbyport(port) IN
              [port |-> port, state |-> "open",
               service |-> IF s.raised THEN "unknown" ELSE s.name]
         ELSE [port |-> port, state |-> "closed", service |-> ""]

\* A lookup made before the connect result is examined.
ServiceLookups_Always(port, outcome) == {port}

\* PortScanner.scan_port: the ports passed to socket.getservbyport, which is
\* called only in the `result == 0` branch.
ServiceLookups(port, outcome) ==
    LET r == connect_ex(outcome) IN
    IF ~r.raised /\ r.code = 0 THEN {port} ELSE {}

ResultPorts == {results[i].port : i \in 1..Len(results)}
PortSet == {ports[i] : i \in 1..Len(ports)}

\* State of one ServiceDetector.detect_service(ip, port) call.
VARIABLES
    dpc,                \* position in detect_service
    dport,              \* the port argument (0: no call yet)
    dresult,            \* the result dict
    common_service,     \* what _detect_by_port returned
    banner,             \* what _get_banner returned: None or bytes
    service,            \* what _identify_from_banner returned
    version,            \* what _extract_version returned
    identified_service, \* what _probe_service returned
    probe_i,            \* _probe_service: candidates of SERVICE_PROBES tried
    probe_resp,         \* _probe_service: the last candidate and what it met
    ssl_info,           \* what _get_ssl_info returned
    tls_met             \* what the TLS connection met

dvars == <<dpc, dport, dresult, common_service, banner, service, version,
           identified_service, probe_i, probe_resp, ssl_info, tls_met>>

VARIABLES
    tpc,            \* position of the _identify_web_technologies call
    content,        \* the content argument of _identify_web_technologies
    technologies,   \* the keys of the technologies dict, in insertion order
    rop,            \* the reading operation called: "banner", "headers"
    use_ssl,        \* its use_ssl argument
    rpc,            \* its position: "idle", "reading", "returned"
    rlen,           \* len(banner) / len(response), the bytes accumulated
    reads,          \* the recv calls of the loop that returned data
    rret,           \* what it returned: "value" or "nothing" ("": not yet)
    scan_button,    \* per scan tab: scan_button.isEnabled()
    stop_button,    \* per scan tab: stop_button.isEnabled()
    scan_thread,    \* per scan tab: "none", "running" or "finished"
    tab_stop_flag,  \* per scan tab: self.scanner.stop_flag
    stop_clicked,   \* per scan tab: how a Stop click on a running scan ended
    start_port,     \* quick-scan tab: start_port.value()
    end_port,       \* quick-scan tab: end_port.value()
    total_ports,    \* quick-scan tab: self.total_ports (0: not set)
    app_alive,      \* the application process is running
    config,         \* ConfigManager.config, keyed by "section.key"
    config_file,    \* settings.json: whether it exists and what it holds
    last_call       \* the ConfigManager method that ran last

rvars == <<rop, use_ssl, rpc, rlen, reads, rret>>

gvars == <<scan_button, stop_button, scan_thread, tab_stop_flag,
           stop_clicked, start_port, end_port, total_ports, app_alive>>

cvars == <<config, config_file, last_call>>

evars == <<tpc, content, technologies, rvars, gvars, cvars>>

allvars == <<vars, dvars, evars>>

\* The empty dict.
EmptyDict == [k \in {} |-> ""]

\* None, and a bytes value, as _get_banner returns them.
NoBytes == [some |-> FALSE, bytes |-> ""]
Bytes(b) == [some |-> TRUE, bytes |-> b]

\* No probe candidate has been contacted.
NoProbe == [candidate |-> "", kind |-> "", bytes |-> ""]

\* No detect_service call has been made.
DetectorIdle ==
    /\ dpc = "idle"
    /\ dport = 0
    /\ dresult = EmptyDict
    /\ common_service = ""
    /\ banner = NoBytes
    /\ service = ""
    /\ version = ""
    /\ identified_service = ""
    /\ probe_i = 0
    /\ probe_resp = NoProbe
    /\ ssl_info = EmptyDict
    /\ tls_met = "none"

\* ConfigManager._initialize: the default configuration (the keys the model
\* follows).
DefaultConfig ==
    [k \in {"general.default_timeout", "general.max_threads"} |->
        IF k = "general.default_timeout" THEN 5 ELSE 10]

\* A settings file that does not exist, and one that holds data.
NoFile == [exists |-> FALSE, data |-> [k \in {} |-> 0]]
FileWith(data) == [exists |-> TRUE, data |-> data]

\* The keys and values a configuration may hold.
ConfigKeys == {"general.default_timeout", "general.max_threads", "custom.x"}
ConfigValues == {5, 10, 50}

\* dict.update / section assignment of load_config: the entries of the file
\* replace or extend those of the configuration.
Updated(cfg, data) ==
    [k \in DOMAIN cfg \cup DOMAIN data |->
        IF k \in DOMAIN data THEN data[k] ELSE cfg[k]]

\* ConfigManager.load_config: the configuration after it.
load_config(cfg, file) ==
    IF file.exists THEN Updated(cfg, file.data) ELSE cfg

\* ConfigManager._initialize: the defaults, then load_config().
_initialize(file) == load_config(DefaultConfig, file)

\* The settings files the manager may find: none, or one written with some
\* of the keys.
SettingsFiles ==
    {NoFile} \cup
    { FileWith(d) : d \in UNION { [K -> ConfigValues] :
                                      K \in SUBSET ConfigKeys } }

\* A ConfigManager after its construction.
ConfigIdle ==
    /\ config_file \in SettingsFiles
    /\ config = _initialize(config_file)
    /\ last_call = "__init__"

\* No ConfigManager is in use.
ConfigNone ==
    /\ config_file = NoFile
    /\ config = DefaultConfig
    /\ last_call = "__init__"

\* The two scan tabs.
Tabs == {"quick", "advanced"}

\* The scan tabs after __init__ and setup_ui.
GuiIdle ==
    /\ scan_button = [t \in Tabs |-> TRUE]
    /\ stop_button = [t \in Tabs |-> FALSE]
    /\ scan_thread = [t \in Tabs |-> "none"]
    /\ tab_stop_flag = [t \in Tabs |-> FALSE]
    /\ stop_clicked = [t \in Tabs |-> "no"]
    /\ start_port = 1
    /\ end_port = 1024
    /\ total_ports = 0
    /\ app_alive = TRUE

\* No other operation has been called.
ExtrasIdle ==
    /\ tpc = "idle"
    /\ content = ""
    /\ technologies = <<>>
    /\ rop = "none"
    /\ use_ssl = FALSE
    /\ rpc = "idle"
    /\ rlen = 0
    /\ reads = 0
    /\ rret = ""
    /\ GuiIdle
    /\ ConfigNone

\* A PortScanner after __init__, and the arguments of its scan_host call.
ScannerInit ==
    /\ max_threads \in 1..MaxThreads
    /\ ports \in {SortedSeq(S) : S \in SUBSET PortUniverse}
    /\ callback \in {"none", "given"}
    /\ stop_flag = FALSE
    /\ port_queue = <<>>
    /\ results = <<>>
    /\ result_lock = 0
    /\ nthreads = 0
    /\ joined = 0
    /\ pc_main = "idle"
    /\ wpc = [w \in Workers |-> "unstarted"]
    /\ wport = [w \in Workers |-> 0]
    /\ wresult = [w \in Workers |-> <<>>]
    /\ conn = [w \in Workers |-> "none"]
    /\ observed = {}
    /\ appAfterStop = [w \in Workers |-> 0]
    /\ stopDuring = FALSE
    /\ resultsAtStop = <<>>
    /\ stopBefore = FALSE
    /\ cbCount = [p \in PortUniverse |-> 0]
    /\ cbRaised = {}
    /\ lookedUp = {}

\* No scan is started: the arguments of a call that starts no thread.
ScannerQuiet ==
    /\ ScannerInit
    /\ max_threads = 1
    /\ ports = <<>>
    /\ callback = "none"

Init ==
    /\ DetectorIdle
    /\ ExtrasIdle
    /\ ScannerInit

\* A scan_host that leaves the flag as it finds it.
FlagOnEntry_Kept == stop_flag

\* scan_host: self.stop_flag.clear().
FlagOnEntry == FALSE

\* A worker that handles one port and ends (`if` for `while`).
LoopBack_Once == "exit"

\* worker: where the end of the loop body leads, back to the while condition.
LoopBack == "loop_empty"

\* A worker that never looks at the flag.
StopObserved_Ignored(flag) == FALSE

\* worker: the value read by self.stop_flag.is_set().
StopObserved(flag) == flag

\* A get that waits for an item instead of raising queue.Empty.
GetOnEmpty_Blocking == "get"

\* worker: port_queue.get(block=False) on an empty queue raises queue.Empty,
\* and the handler breaks out of the loop.
GetOnEmpty == "exit"

\* A get that reads the head of the queue and leaves it there.
QueueAfterGet_Peek(q) == q

\* worker: the queue after port_queue.get(block=False) has taken its head.
QueueAfterGet(q) == Tail(q)

\* An append made without holding the lock.
LockFree_Unguarded(lock) == TRUE

\* worker: `with result_lock:` is entered only while the lock is free.
LockFree(lock) == lock = 0

\* An insert at the front of the list.
AppendResult_Front(rs, r) == <<r>> \o rs

\* worker: results.append(result).
AppendResult(rs, r) == Append(rs, r)

\* A join that does not wait.
ThreadEnded_NoWait(w) == TRUE

\* thread.join() returns once the thread has ended, by leaving the loop or by
\* an uncaught exception.
ThreadEnded(w) == wpc[w] \in {"exit", "dead"}

\* A pool of max_threads workers whatever the number of ports.
PoolSize_MaxThreads == max_threads

\* scan_host: the number of worker threads, min(self.max_threads, len(ports)).
PoolSize == Min(max_threads, Len(ports))

\* A callback that is never called.
CallbackGiven_Never(cb) == FALSE

\* worker: `if callback:`.
CallbackGiven(cb) == cb # "none"

\* scan_host entry: fresh results, queue and lock, stop_flag.clear(), and the
\* queue filled with the ports in list order.
ScanHostEnter ==
    /\ pc_main = "idle"
    /\ results' = <<>>
    /\ result_lock' = 0
    /\ stop_flag' = FlagOnEntry
    /\ port_queue' = ports
    /\ pc_main' = "spawn"
    /\ UNCHANGED <<dvars, evars, stopBefore, lookedUp, max_threads, ports, callback, nthreads, joined, wpc, wport,
                   wresult, conn, observed, appAfterStop,
                   stopDuring, resultsAtStop, cbCount, cbRaised>>

\* One iteration of `for _ in range(min(self.max_threads, len(ports)))`:
\* the thread is started and appended to threads; the loop ends when all
\* are started.
SpawnThread ==
    /\ pc_main = "spawn"
    /\ IF nthreads < PoolSize
       THEN /\ nthreads' = nthreads + 1
            /\ wpc' = [wpc EXCEPT ![nthreads + 1] = "loop_empty"]
            /\ UNCHANGED pc_main
       ELSE /\ pc_main' = "join"
            /\ UNCHANGED <<nthreads, wpc>>
    /\ UNCHANGED <<dvars, evars, stopBefore, lookedUp, max_threads, ports, callback, stop_flag, port_queue,
                   results, result_lock, joined, wport, wresult, conn,
                   observed, appAfterStop, stopDuring,
                   resultsAtStop, cbCount, cbRaised>>

\* thread.join() of the next thread in threads returns once it has ended.
JoinThread ==
    /\ pc_main = "join"
    /\ joined < nthreads
    /\ ThreadEnded(joined + 1)
    /\ joined' = joined + 1
    /\ UNCHANGED <<dvars, evars, stopBefore, lookedUp, max_threads, ports, callback, stop_flag, port_queue,
                   results, result_lock, nthreads, pc_main, wpc, wport,
                   wresult, conn, observed, appAfterStop,
                   stopDuring, resultsAtStop, cbCount, cbRaised>>

\* `return results`, after the join loop.
ScanHostReturn ==
    /\ pc_main = "join"
    /\ joined = nthreads
    /\ pc_main' = "returned"
    /\ UNCHANGED <<dvars, evars, stopBefore, lookedUp, max_threads, ports, callback, stop_flag, port_queue,
                   results, result_lock, nthreads, joined, wpc, wport,
                   wresult, conn, observed, appAfterStop,
                   stopDuring, resultsAtStop, cbCount, cbRaised>>

\* PortScanner.stop_scan, called from any other thread at any time.
StopScan ==
    /\ stop_flag' = TRUE
    /\ stopBefore' = (stopBefore \/ pc_main = "idle")
    /\ stopDuring' = (stopDuring \/ pc_main \in {"spawn", "join"})
    /\ resultsAtStop' =
          IF ~stopDuring /\ pc_main \in {"spawn", "join"}
          THEN results ELSE resultsAtStop
    /\ UNCHANGED <<dvars, evars, lookedUp, max_threads, ports, callback, port_queue, results,
                   result_lock, nthreads, joined, pc_main, wpc, wport,
                   wresult, conn, observed, appAfterStop,
                   cbCount, cbRaised>>

\* worker: the first operand of the while condition, `not port_queue.empty()`.
WorkerCheckEmpty(w) ==
    /\ wpc[w] = "loop_empty"
    /\ wpc' = [wpc EXCEPT ![w] =
                  IF port_queue = <<>> THEN "exit" ELSE "loop_stop"]
    /\ UNCHANGED <<dvars, evars, stopBefore, lookedUp, max_threads, ports, callback, stop_flag, port_queue,
                   results, result_lock, nthreads, joined, pc_main, wport,
                   wresult, conn, observed, appAfterStop,
                   stopDuring, resultsAtStop, cbCount, cbRaised>>

\* worker: the second operand, `not self.stop_flag.is_set()`.
WorkerCheckStop(w) ==
    /\ wpc[w] = "loop_stop"
    /\ wpc' = [wpc EXCEPT ![w] =
                  IF StopObserved(stop_flag) THEN "exit" ELSE "get"]
    /\ observed' = IF stop_flag THEN observed \cup {w} ELSE observed
    /\ UNCHANGED <<dvars, evars, stopBefore, lookedUp, max_threads, ports, callback, stop_flag, port_queue,
                   results, result_lock, nthreads, joined, pc_main, wport,
                   wresult, conn, appAfterStop, stopDuring,
                   resultsAtStop, cbCount, cbRaised>>

\* worker: port_queue.get(block=False); queue.Empty leaves the loop.
WorkerGet(w) ==
    /\ wpc[w] = "get"
    /\ IF port_queue = <<>>
       THEN /\ wpc' = [wpc EXCEPT ![w] = GetOnEmpty]
            /\ UNCHANGED <<port_queue, wport>>
       ELSE /\ wport' = [wport EXCEPT ![w] = Head(port_queue)]
            /\ port_queue' = QueueAfterGet(port_queue)
            /\ wpc' = [wpc EXCEPT ![w] = "scan"]
    /\ UNCHANGED <<dvars, evars, stopBefore, lookedUp, max_threads, ports, callback, stop_flag, results,
                   result_lock, nthreads, joined, pc_main, wresult, conn,
                   observed, appAfterStop, stopDuring, resultsAtStop,
                   cbCount, cbRaised>>

\* worker: result = self.scan_port(host, port), against a host whose connect
\* attempt on that port meets one of `outcomes`.
ScanPortStep(w, outcomes) ==
    /\ wpc[w] = "scan"
    /\ \E outcome \in outcomes :
          /\ conn' = [conn EXCEPT ![w] = outcome]
          /\ wresult' = [wresult EXCEPT ![w] = scan_port(wport[w], outcome)]
          /\ lookedUp' = lookedUp \cup ServiceLookups(wport[w], outcome)
    /\ wpc' = [wpc EXCEPT ![w] = "acquire"]
    /\ UNCHANGED <<dvars, evars, max_threads, ports, callback, stop_flag, port_queue,
                   results, result_lock, nthreads, joined, pc_main, wport,
                   observed, appAfterStop, stopDuring,
                   resultsAtStop, stopBefore, cbCount, cbRaised>>

\* worker: result = self.scan_port(host, port), whatever the network does.
WorkerScan(w) == ScanPortStep(w, ConnectOutcomes)

\* worker: entering `with result_lock:`.
WorkerAcquire(w) ==
    /\ wpc[w] = "acquire"
    /\ LockFree(result_lock)
    /\ result_lock' = w
    /\ conn' = [conn EXCEPT ![w] = "none"]
    /\ wpc' = [wpc EXCEPT ![w] = "append"]
    /\ UNCHANGED <<dvars, evars, stopBefore, lookedUp, max_threads, ports, callback, stop_flag, port_queue,
                   results, nthreads, joined, pc_main, wport, wresult,
                   observed, appAfterStop, stopDuring,
                   resultsAtStop, cbCount, cbRaised>>

\* worker: results.append(result) and leaving the with block.
WorkerAppend(w) ==
    /\ wpc[w] = "append"
    /\ results' = AppendResult(results, wresult[w])
    /\ result_lock' = IF result_lock = w THEN 0 ELSE result_lock
    /\ appAfterStop' =
          [appAfterStop EXCEPT ![w] = @ + (IF stop_flag THEN 1 ELSE 0)]
    /\ wpc' = [wpc EXCEPT ![w] = "callback"]
    /\ UNCHANGED <<dvars, evars, stopBefore, lookedUp, max_threads, ports, callback, stop_flag, port_queue,
                   nthreads, joined, pc_main, wport, wresult, conn, observed,
                   stopDuring, resultsAtStop, cbCount,
                   cbRaised>>

\* worker: `if callback: callback(result)` and port_queue.task_done(). A
\* callback that raises ends the thread: only queue.Empty is caught.
WorkerCallback(w) ==
    /\ wpc[w] = "callback"
    /\ \/ /\ ~CallbackGiven(callback)
          /\ wpc' = [wpc EXCEPT ![w] = LoopBack]
          /\ UNCHANGED <<cbCount, cbRaised>>
       \/ /\ CallbackGiven(callback)
          /\ cbCount' = [cbCount EXCEPT ![wport[w]] = @ + 1]
          /\ \/ /\ wpc' = [wpc EXCEPT ![w] = LoopBack]
                /\ UNCHANGED cbRaised
             \/ /\ wpc' = [wpc EXCEPT ![w] = "dead"]
                /\ cbRaised' = cbRaised \cup {wport[w]}
    /\ wport' = [wport EXCEPT ![w] = 0]
    /\ wresult' = [wresult EXCEPT ![w] = <<>>]
    /\ conn' = [conn EXCEPT ![w] = "none"]
    /\ UNCHANGED <<dvars, evars, stopBefore, lookedUp, max_threads, ports, callback, stop_flag, port_queue,
                   results, result_lock, nthreads, joined, pc_main, observed,
                   appAfterStop, stopDuring, resultsAtStop>>

Worker(w) ==
    \/ WorkerCheckEmpty(w)
    \/ WorkerCheckStop(w)
    \/ WorkerGet(w)
    \/ WorkerScan(w)
    \/ WorkerAcquire(w)
    \/ WorkerAppend(w)
    \/ WorkerCallback(w)

MainNext ==
    \/ ScanHostEnter
    \/ SpawnThread
    \/ JoinThread
    \/ ScanHostReturn

Next ==
    \/ MainNext
    \/ StopScan
    \/ \E w \in Workers : Worker(w)

Spec == Init /\ [][Next]_allvars

\* Every started thread is scheduled again and again, and the thread that calls
\* scan_host runs; nothing is assumed about stop_scan.
FairSpec ==
    /\ Spec
    /\ WF_vars(MainNext)
    /\ \A w \in Workers : WF_vars(Worker(w))

\* A host whose connect outcome is fixed per port.
HostOutcome(port) ==
    CASE port = 2 -> "success"
      [] port = 3 -> "refused"
      [] port = 4 -> "timeout"
      [] OTHER    -> "dns_failure"

\* worker: result = self.scan_port(host, port) against that host.
WorkerScanHost(w) == ScanPortStep(w, {HostOutcome(wport[w])})

WorkerOnHost(w) ==
    \/ WorkerCheckEmpty(w)
    \/ WorkerCheckStop(w)
    \/ WorkerGet(w)
    \/ WorkerScanHost(w)
    \/ WorkerAcquire(w)
    \/ WorkerAppend(w)
    \/ WorkerCallback(w)

HostNext ==
    \/ MainNext
    \/ StopScan
    \/ \E w \in Workers : WorkerOnHost(w)

\* scan_host for every max_threads against the host of HostOutcome.
HostSpec == Init /\ [][HostNext]_allvars

----------------------------------------------------------------------------
\* ServiceDetector: byte strings, the catalogs and the pure helpers.

\* The byte at position i of a byte string.
At(str, i) == SubSeq(str, i, i)

\* bytes.lower() / the (?i) flag, byte by byte.
LowerChar(c) ==
    CASE c = "A" -> "a" [] c = "B" -> "b" [] c = "C" -> "c" [] c = "D" -> "d"
      [] c = "E" -> "e" [] c = "F" -> "f" [] c = "G" -> "g" [] c = "H" -> "h"
      [] c = "I" -> "i" [] c = "J" -> "j" [] c = "K" -> "k" [] c = "L" -> "l"
      [] c = "M" -> "m" [] c = "N" -> "n" [] c = "O" -> "o" [] c = "P" -> "p"
      [] c = "Q" -> "q" [] c = "R" -> "r" [] c = "S" -> "s" [] c = "T" -> "t"
      [] c = "U" -> "u" [] c = "V" -> "v" [] c = "W" -> "w" [] c = "X" -> "x"
      [] c = "Y" -> "y" [] c = "Z" -> "z" [] OTHER -> c

RECURSIVE Lower(_)
Lower(str) ==
    IF Len(str) = 0 THEN ""
    ELSE IF Len(str) = 1 THEN LowerChar(str)
    ELSE LET half == Len(str) \div 2
         IN Lower(SubSeq(str, 1, half)) \o
            Lower(SubSeq(str, half + 1, Len(str)))

\* `needle in hay` for byte strings.
Contains(hay, needle) ==
    \E i \in 1..(Len(hay) - Len(needle) + 1) :
        SubSeq(hay, i, i + Len(needle) - 1) = needle

\* The whitespace of str.strip() and of the regular expression class \s,
\* among the characters an ASCII byte decodes to: space, \t, \n, \r, \f,
\* the vertical tab (0x0b) and the separators 0x1c to 0x1f.
IsSpace(c) ==
    c \in {" ", "\t", "\n", "\r", "\f", "", "", "", "", ""}

RECURSIVE LStrip(_)
LStrip(str) ==
    IF str # "" /\ IsSpace(At(str, 1)) THEN LStrip(Tail(str)) ELSE str

RECURSIVE RStrip(_)
RStrip(str) ==
    IF str # "" /\ IsSpace(At(str, Len(str)))
    THEN RStrip(SubSeq(str, 1, Len(str) - 1)) ELSE str

\* str.strip().
Strip(str) == RStrip(LStrip(str))

\* ServiceDetector.SERVICE_SIGNATURES, in the order of the dict.
SERVICE_SIGNATURES ==
    << <<"http", <<"HTTP", "<html", "<!DOCTYPE">> >>,
       <<"https", <<"HTTP", "<html", "<!DOCTYPE">> >>,
       <<"ssh", <<"SSH", "OpenSSH">> >>,
       <<"ftp", <<"220", "FTP", "FileZilla">> >>,
       <<"smtp", <<"220", "SMTP", "ESMTP">> >>,
       <<"pop3", <<"+OK", "POP3">> >>,
       <<"imap", <<"* OK", "IMAP">> >>,
       <<"telnet", <<"Telnet", "login:", "Username:">> >>,
       <<"mysql", <<"mysql_native_password", "MariaDB">> >>,
       <<"rdp", <<"RDP", "RFB">> >>,
       <<"vnc", <<"RFB", "VNC">> >>,
       <<"dns", <<"DNS">> >>,
       <<"smb", <<"SMB", "Samba">> >>,
       <<"ldap", <<"LDAP">> >>,
       <<"ntp", <<"NTP">> >>,
       <<"snmp", <<"SNMP">> >>,
       <<"redis", <<"REDIS">> >>,
       <<"mongodb", <<"MongoDB">> >>,
       <<"postgresql", <<"PostgreSQL">> >> >>

\* The services of ServiceDetector.SERVICE_PROBES, in the order of the dict.
SERVICE_PROBES ==
    <<"http", "https", "ssh", "ftp", "smtp", "pop3", "imap", "telnet",
      "mysql", "redis", "mongodb", "postgresql">>

\* The signatures of every service of the catalog.
RECURSIVE AllSignatures(_)
AllSignatures(n) ==
    IF n = 0 THEN <<>>
    ELSE AllSignatures(n - 1) \o SERVICE_SIGNATURES[n][2]

\* A check of the response against the whole catalog.
SignaturesOf_Any(name) == AllSignatures(Len(SERVICE_SIGNATURES))

\* SERVICE_SIGNATURES[name], or the empty list for a name not in the dict.
SignaturesOf(name) ==
    IF \E k \in 1..Len(SERVICE_SIGNATURES) : SERVICE_SIGNATURES[k][1] = name
    THEN SERVICE_SIGNATURES[CHOOSE k \in 1..Len(SERVICE_SIGNATURES) :
                               SERVICE_SIGNATURES[k][1] = name][2]
    ELSE <<>>

\* `signature.lower() in data.lower()` for some signature of the list.
MatchesAny(sigs, data) ==
    \E j \in 1..Len(sigs) : Contains(Lower(data), Lower(sigs[j]))

\* The last service of the catalog with a signature in the banner.
_identify_from_banner_Last(b) ==
    LET hits == {k \in 1..Len(SERVICE_SIGNATURES) :
                    MatchesAny(SERVICE_SIGNATURES[k][2], b)}
    IN IF hits = {} THEN ""
       ELSE SERVICE_SIGNATURES[CHOOSE k \in hits : \A m \in hits : m <= k][1]

\* ServiceDetector._identify_from_banner: the first service of the catalog
\* with a signature in the banner, else ''.
_identify_from_banner(b) ==
    LET hits == {k \in 1..Len(SERVICE_SIGNATURES) :
                    MatchesAny(SERVICE_SIGNATURES[k][2], b)}
    IN IF hits = {} THEN ""
       ELSE SERVICE_SIGNATURES[CHOOSE k \in hits :
                                  \A m \in hits : k <= m][1]

\* ServiceDetector._detect_by_port: the common_ports table.
_detect_by_port(port) ==
    CASE port = 21 -> "ftp"       [] port = 22 -> "ssh"
      [] port = 23 -> "telnet"    [] port = 25 -> "smtp"
      [] port = 53 -> "dns"       [] port = 80 -> "http"
      [] port = 110 -> "pop3"     [] port = 143 -> "imap"
      [] port = 443 -> "https"    [] port = 445 -> "smb"
      [] port = 1433 -> "mssql"   [] port = 1521 -> "oracle"
      [] port = 3306 -> "mysql"   [] port = 3389 -> "rdp"
      [] port = 5432 -> "postgresql" [] port = 5900 -> "vnc"
      [] port = 6379 -> "redis"   [] port = 8080 -> "http-proxy"
      [] port = 8443 -> "https-alt" [] port = 27017 -> "mongodb"
      [] OTHER -> ""

\* The version patterns of _extract_version, in order. Each is a literal
\* matched without regard to case (`wild`: the positions of the literal that
\* are a `.`), then a group of one or more bytes outside a class (`stop`:
\* "space" for [^\s]+, "line" for [^\r\n]+), then a literal that must follow.
VersionPatterns ==
    << [lit |-> "Server: ",       wild |-> {},  stop |-> "line",  suffix |-> ""],
       [lit |-> "Version: ",      wild |-> {},  stop |-> "line",  suffix |-> ""],
       [lit |-> "OpenSSH_",       wild |-> {},  stop |-> "space", suffix |-> ""],
       [lit |-> "Apache/",        wild |-> {},  stop |-> "space", suffix |-> ""],
       [lit |-> "nginx/",         wild |-> {},  stop |-> "space", suffix |-> ""],
       [lit |-> "Microsoft-IIS/", wild |-> {},  stop |-> "space", suffix |-> ""],
       [lit |-> "MySQL ",         wild |-> {},  stop |-> "space", suffix |-> ""],
       [lit |-> "PostgreSQL ",    wild |-> {},  stop |-> "space", suffix |-> ""],
       [lit |-> "SSH-2.0-",       wild |-> {6}, stop |-> "line",  suffix |-> ""],
       [lit |-> "220 ",           wild |-> {},  stop |-> "line",
        suffix |-> " FTP"] >>

\* A group that stops at the end of the line only.
InGroup_Line(c, stop) == c \notin {"\r", "\n"}

\* A byte the group of a pattern may hold.
InGroup(c, stop) ==
    IF stop = "space" THEN ~IsSpace(c) ELSE c \notin {"\r", "\n"}

\* The literal of the pattern matches at position i.
LitAt(str, i, pat) ==
    /\ i + Len(pat.lit) - 1 <= Len(str)
    /\ \A k \in 1..Len(pat.lit) :
          IF k \in pat.wild
          THEN At(str, i + k - 1) # "\n"
          ELSE LowerChar(At(str, i + k - 1)) = LowerChar(At(pat.lit, k))

\* The ends a group that starts at position j can have, the greedy one last.
GroupEnds(str, j, pat) ==
    {e \in j..Len(str) :
        /\ \A k \in j..e : InGroup(At(str, k), pat.stop)
        /\ e + Len(pat.suffix) <= Len(str)
        /\ Lower(SubSeq(str, e + 1, e + Len(pat.suffix))) = Lower(pat.suffix)}

\* The positions at which the pattern matches.
MatchStarts(str, pat) ==
    {i \in 1..Len(str) :
        LitAt(str, i, pat) /\ GroupEnds(str, i + Len(pat.lit), pat) # {}}

\* re.search(pattern, str).group(1): the group of the leftmost match, as long
\* as the rest of the pattern allows.
Group1(str, pat) ==
    LET i == CHOOSE a \in MatchStarts(str, pat) :
                 \A b \in MatchStarts(str, pat) : a <= b
        j == i + Len(pat.lit)
        ends == GroupEnds(str, j, pat)
        e == CHOOSE a \in ends : \A b \in ends : b <= a
    IN SubSeq(str, j, e)

\* ServiceDetector._extract_version: the stripped group of the first pattern
\* that matches, else ''.
_extract_version(b) ==
    LET hits == {k \in 1..Len(VersionPatterns) :
                    MatchStarts(b, VersionPatterns[k]) # {}}
    IN IF hits = {} THEN ""
       ELSE Strip(Group1(b, VersionPatterns[CHOOSE k \in hits :
                                               \A m \in hits : k <= m]))

\* dict.get(key, default).
Get(d, key, default) == IF key \in DOMAIN d THEN d[key] ELSE default

\* The dict d with d[key] = value.
Put(d, key, value) ==
    [k \in DOMAIN d \cup {key} |-> IF k = key THEN value ELSE d[k]]

\* ', '.join(parts).
RECURSIVE Join(_)
Join(parts) ==
    IF parts = <<>> THEN ""
    ELSE IF Len(parts) = 1 THEN parts[1]
    ELSE parts[1] \o ", " \o Join(Tail(parts))

\* The (key, value) pairs of a certificate name, RDN after RDN.
RECURSIVE Pairs(_)
Pairs(name) == IF name = <<>> THEN <<>> ELSE Head(name) \o Pairs(Tail(name))

\* _get_ssl_info: the parts kept of a name, "CN=" for commonName and, for the
\* issuer only, "O=" for organizationName.
RECURSIVE NameParts(_, _)
NameParts(pairs, withOrg) ==
    IF pairs = <<>> THEN <<>>
    ELSE LET key == Head(pairs)[1]
             value == Head(pairs)[2]
             rest == NameParts(Tail(pairs), withOrg)
         IN IF key = "commonName" THEN <<"CN=" \o value>> \o rest
            ELSE IF withOrg /\ key = "organizationName"
                 THEN <<"O=" \o value>> \o rest
                 ELSE rest

\* _get_ssl_info: context.verify_mode = ssl.CERT_NONE.
verify_mode == "CERT_NONE"

\* SSLSocket.getpeercert(): the decoded certificate, which is the empty dict
\* when the certificate was not validated.
getpeercert(cert) == IF verify_mode = "CERT_NONE" THEN EmptyDict ELSE cert

\* ServiceDetector._get_ssl_info, given what the TLS connection meets: an
\* exception before the handshake is over ("error"), a peer without a
\* certificate ("no_cert"), or a session ("ok") with its version and the
\* peer certificate.
_get_ssl_info(met) ==
    IF met.kind # "ok" THEN EmptyDict
    ELSE LET cert_dict == getpeercert(met.cert)
             r1 == Put(EmptyDict, "version", met.version)
             r2 == IF cert_dict # EmptyDict /\ "subject" \in DOMAIN cert_dict
                   THEN Put(r1, "subject",
                            Join(NameParts(Pairs(cert_dict.subject), FALSE)))
                   ELSE r1
             r3 == IF cert_dict # EmptyDict /\ "issuer" \in DOMAIN cert_dict
                   THEN Put(r2, "issuer",
                            Join(NameParts(Pairs(cert_dict.issuer), TRUE)))
                   ELSE r2
             r4 == IF cert_dict # EmptyDict /\ "notBefore" \in DOMAIN cert_dict
                   THEN Put(r3, "valid_from", cert_dict.notBefore)
                   ELSE r3
             r5 == IF cert_dict # EmptyDict /\ "notAfter" \in DOMAIN cert_dict
                   THEN Put(r4, "valid_until", cert_dict.notAfter)
                   ELSE r4
         IN r5

\* An except clause that lets connection errors through.
ExceptException_TimeoutOnly(kind) == kind = "timeout"

\* _get_banner, _probe_service, _get_ssl_info: `except Exception` catches
\* whatever the stage raises.
ExceptException(kind) == TRUE

\* An assignment of the stage's value without the `if value:` guard.
MergeService_Unguarded(result, value) == [result EXCEPT !.service = value]

\* detect_service: `if value: result['service'] = value`.
MergeService(result, value) ==
    IF value # "" THEN [result EXCEPT !.service = value] ELSE result

\* A TLS stage that sets the ssl_* fields and leaves the service.
ApplySsl_KeepService(result, info) ==
    Put(Put(Put(result,
                "ssl_version", Get(info, "version", "")),
            "ssl_issuer", Get(info, "issuer", "")),
        "ssl_subject", Get(info, "subject", ""))

\* A TLS stage that stores the TLS version under 'version'.
ApplySsl_Version(result, info) ==
    Put(Put(Put([result EXCEPT !.service = "https",
                               !.version = Get(info, "version", "")],
                "ssl_version", Get(info, "version", "")),
            "ssl_issuer", Get(info, "issuer", "")),
        "ssl_subject", Get(info, "subject", ""))

\* detect_service: the assignments made when ssl_info is not empty.
ApplySsl(result, info) ==
    Put(Put(Put([result EXCEPT !.service = "https"],
                "ssl_version", Get(info, "version", "")),
            "ssl_issuer", Get(info, "issuer", "")),
        "ssl_subject", Get(info, "subject", ""))

\* detect_service: `port in [443, 8443] or result['service'] == 'https'`.
TlsTriggered(port, result) == port \in {443, 8443} \/ result.service = "https"

----------------------------------------------------------------------------
\* A second scan_host call on the same PortScanner while the first is
\* running.

\* Another thread calls scan_host(host, []) on the same instance: its
\* results, queue and lock are its own, the flag it clears is shared; with no
\* ports it starts no thread and returns [].
ScanHostAgain ==
    /\ pc_main \in {"spawn", "join"}
    /\ stop_flag' = FlagOnEntry
    /\ UNCHANGED <<dvars, evars, stopBefore, lookedUp, max_threads, ports,
                   callback, port_queue, results, result_lock, nthreads,
                   joined, pc_main, wpc, wport, wresult, conn, observed,
                   appAfterStop, stopDuring, resultsAtStop, cbCount,
                   cbRaised>>

ReuseNext == Next \/ ScanHostAgain

ReuseSpec == Init /\ [][ReuseNext]_allvars

----------------------------------------------------------------------------
\* ServiceDetector.detect_service, one action per stage.  The network is the
\* environment: each stage draws what its connection meets from a small set.

\* Ports detect_service is called with.
DetectPorts == {22, 80, 443, 8443, 9999}

\* Bytes a peer sends on the banner connection (ASCII, so that decoding
\* them leaves the characters as they are).
BannerSamples ==
    { "",
      "  \r\n",
      "hello\r\n",
      "SSH-2.0-OpenSSH_8.9\r\n",
      "220 mail.example.com ESMTP ready\r\n",
      "HTTP/1.1 200 OK\r\nServer: nginx/1.18.0\r\n\r\n" }

\* What the banner connection meets: the connect is refused or times out,
\* the peer resets the connection during recv, or the bytes accumulated
\* until the peer closes or the read times out.
BannerOutcomes ==
    { [kind |-> k, bytes |-> ""] : k \in {"refused", "timeout", "reset"} }
    \cup { [kind |-> "data", bytes |-> b] : b \in BannerSamples }

\* Bytes a peer answers to a probe.
ProbeResponses ==
    { "",
      "hello\r\n",
      "SSH-2.0-OpenSSH_8.9\r\n",
      "+OK POP3 ready\r\n",
      "HTTP/1.1 400 Bad Request\r\n\r\n" }

\* What one probe connection meets: the connect fails, recv times out, or
\* recv returns a response.
ProbeOutcomes ==
    { [kind |-> k, bytes |-> ""] : k \in {"refused", "timeout"} }
    \cup { [kind |-> "data", bytes |-> b] : b \in ProbeResponses }

\* A peer certificate as getpeercert() decodes it.
SampleCert ==
    [ subject   |-> << << <<"commonName", "example.test">> >>,
                       << <<"organizationName", "Example Org">> >> >>,
      issuer    |-> << << <<"organizationName", "Example CA">> >>,
                       << <<"commonName", "Example Root">> >> >>,
      notBefore |-> "Jan  1 00:00:00 2026 GMT",
      notAfter  |-> "Jan  1 00:00:00 2027 GMT" ]

\* What the TLS connection meets.
TlsOutcomes ==
    { [kind |-> k, version |-> "", cert |-> SampleCert] :
          k \in {"error", "no_cert"} }
    \cup { [kind |-> "ok", version |-> v, cert |-> SampleCert] :
               v \in {"TLSv1.2", "TLSv1.3"} }

\* ServiceDetector._get_banner: None when the connection raises, else the
\* bytes received.
_get_banner(met) == IF met.kind = "data" THEN Bytes(met.bytes) ELSE NoBytes

\* `if banner:` for the Optional[bytes] that _get_banner returns.
BannerTruthy(b) == b.some /\ b.bytes # ""

\* bytes.decode('utf-8', errors='replace') on ASCII bytes.
Decode(b) == b

\* detect_service is called: the initial result dict.
DetectEnter ==
    /\ dpc = "idle"
    /\ \E port \in DetectPorts : dport' = port
    /\ dresult' = [service |-> "unknown", version |-> "",
                   banner |-> "", protocol |-> "tcp"]
    /\ dpc' = "port_table"
    /\ UNCHANGED <<vars, evars, common_service, banner, service, version,
                   identified_service, probe_i, probe_resp, ssl_info, tls_met>>

\* The port-number stage.
PortTableStage ==
    /\ dpc = "port_table"
    /\ common_service' = _detect_by_port(dport)
    /\ dresult' = MergeService(dresult, common_service')
    /\ dpc' = "banner"
    /\ UNCHANGED <<vars, evars, dport, banner, service, version,
                   identified_service, probe_i, probe_resp, ssl_info, tls_met>>

\* The banner stage: _get_banner, then the three guarded assignments.
BannerStage ==
    /\ dpc = "banner"
    /\ \E met \in BannerOutcomes :
         IF met.kind # "data" /\ ~ExceptException(met.kind)
         THEN /\ dpc' = "raised"
              /\ UNCHANGED <<banner, service, version, dresult>>
         ELSE /\ banner' = _get_banner(met)
              /\ IF BannerTruthy(banner')
                 THEN /\ service' = _identify_from_banner(banner'.bytes)
                      /\ version' = _extract_version(banner'.bytes)
                      /\ dresult' =
                           LET r1 == [dresult EXCEPT
                                        !.banner = Strip(Decode(banner'.bytes))]
                               r2 == MergeService(r1, service')
                           IN IF version' # ""
                              THEN [r2 EXCEPT !.version = version']
                              ELSE r2
                 ELSE UNCHANGED <<service, version, dresult>>
              /\ dpc' = "probe"
    /\ UNCHANGED <<vars, evars, dport, common_service, identified_service,
                   probe_i, probe_resp, ssl_info, tls_met>>

\* _probe_service, one candidate: a fresh connection, the probe, one recv,
\* and the check against the candidate's own signatures.
ProbeCandidate ==
    /\ dpc = "probe"
    /\ probe_i < Len(SERVICE_PROBES)
    /\ \E met \in ProbeOutcomes :
         LET candidate == SERVICE_PROBES[probe_i + 1] IN
         /\ probe_resp' = [candidate |-> candidate, kind |-> met.kind,
                           bytes |-> met.bytes]
         /\ IF met.kind = "refused" /\ ~ExceptException(met.kind)
            THEN /\ dpc' = "raised"
                 /\ UNCHANGED <<identified_service, probe_i>>
            ELSE IF /\ met.kind = "data"
                    /\ MatchesAny(SignaturesOf(candidate), met.bytes)
                 THEN /\ identified_service' = candidate
                      /\ probe_i' = probe_i + 1
                      /\ dpc' = "probed"
                 ELSE /\ probe_i' = probe_i + 1
                      /\ UNCHANGED <<identified_service, dpc>>
    /\ UNCHANGED <<vars, evars, dport, dresult, common_service, banner,
                   service, version, ssl_info, tls_met>>

\* _probe_service: no candidate matched, '' is returned.
ProbeExhausted ==
    /\ dpc = "probe"
    /\ probe_i = Len(SERVICE_PROBES)
    /\ identified_service' = ""
    /\ dpc' = "probed"
    /\ UNCHANGED <<vars, evars, dport, dresult, common_service, banner, service,
                   version, probe_i, probe_resp, ssl_info, tls_met>>

\* detect_service: the guarded assignment of the probe stage's value.
ProbeStage ==
    /\ dpc = "probed"
    /\ dresult' = MergeService(dresult, identified_service)
    /\ dpc' = "tls"
    /\ UNCHANGED <<vars, evars, dport, common_service, banner, service, version,
                   identified_service, probe_i, probe_resp, ssl_info, tls_met>>

\* The TLS stage, triggered: _get_ssl_info and the assignments under
\* `if ssl_info:`.
TlsStage ==
    /\ dpc = "tls"
    /\ TlsTriggered(dport, dresult)
    /\ \E met \in TlsOutcomes :
         IF met.kind = "error" /\ ~ExceptException(met.kind)
         THEN /\ dpc' = "raised"
              /\ tls_met' = met.kind
              /\ UNCHANGED <<ssl_info, dresult>>
         ELSE /\ ssl_info' = _get_ssl_info(met)
              /\ tls_met' = met.kind
              /\ dresult' = IF ssl_info' # EmptyDict
                            THEN ApplySsl(dresult, ssl_info')
                            ELSE dresult
              /\ dpc' = "done"
    /\ UNCHANGED <<vars, evars, dport, common_service, banner, service, version,
                   identified_service, probe_i, probe_resp>>

\* The TLS stage is not triggered: detect_service returns result.
TlsSkipped ==
    /\ dpc = "tls"
    /\ ~TlsTriggered(dport, dresult)
    /\ tls_met' = "not_triggered"
    /\ dpc' = "done"
    /\ UNCHANGED <<vars, evars, dport, dresult, common_service, banner, service,
                   version, identified_service, probe_i, probe_resp, ssl_info>>

DetectNext ==
    \/ DetectEnter
    \/ PortTableStage
    \/ BannerStage
    \/ ProbeCandidate
    \/ ProbeExhausted
    \/ ProbeStage
    \/ TlsStage
    \/ TlsSkipped

\* detect_service alone: no scan is running.
DetectInit ==
    /\ DetectorIdle
    /\ ExtrasIdle
    /\ ScannerQuiet

DetectSpec == DetectInit /\ [][DetectNext]_allvars

----------------------------------------------------------------------------
\* _identify_from_banner and _extract_version applied to a banner, as the
\* banner stage applies them.

BannerPrefixes ==
    { "", "220 ", "<HTML>", "openssh_7.4 ", "Server: gw\r\n",
      "HTTP/1.1 400 Bad Request\r\n\r\n" }

BannerCores ==
    { "", "hello", "SSH-2.0-OpenSSH_8.9", "ssh-2.0-openssh_8.9",
      "SSH-1.99-Cisco-1.25", "220 ProFTPD Server" }

BannerSuffixes == { "", "\r\n", " FTP\r\n", "p1 Ubuntu-3ubuntu0.1\r\n" }

\* The banners the two functions are applied to.
BannerUniverse ==
    { p \o c \o s : p \in BannerPrefixes, c \in BannerCores,
                    s \in BannerSuffixes }

\* detect_service has reached `if banner:`: the port is the argument, the
\* result dict holds its four keys with the service of the port table, and
\* _get_banner has returned None or bytes.
BannerInit ==
    /\ ScannerQuiet
    /\ ExtrasIdle
    /\ dpc = "banner_read"
    /\ banner \in {NoBytes} \cup { Bytes(b) : b \in BannerUniverse }
    /\ dport \in DetectPorts
    /\ common_service = _detect_by_port(dport)
    /\ dresult = MergeService([service |-> "unknown", version |-> "",
                               banner |-> "", protocol |-> "tcp"],
                              common_service)
    /\ service = ""
    /\ version = ""
    /\ identified_service = ""
    /\ probe_i = 0
    /\ probe_resp = NoProbe
    /\ ssl_info = EmptyDict
    /\ tls_met = "none"

\* `if banner:` is false (None or b''): the three assignments are skipped.
BannerAbsent ==
    /\ dpc = "banner_read"
    /\ ~BannerTruthy(banner)
    /\ dpc' = "skipped"
    /\ UNCHANGED <<vars, evars, dport, dresult, common_service, banner,
                   service, version, identified_service, probe_i,
                   probe_resp, ssl_info, tls_met>>

\* result['banner'] = banner.decode(...).strip();
\* service = self._identify_from_banner(banner);
\* if service: result['service'] = service
IdentifyFromBanner ==
    /\ dpc = "banner_read"
    /\ BannerTruthy(banner)
    /\ service' = _identify_from_banner(banner.bytes)
    /\ dresult' = MergeService(
                     [dresult EXCEPT !.banner = Strip(Decode(banner.bytes))],
                     service')
    /\ dpc' = "identified"
    /\ UNCHANGED <<vars, evars, dport, common_service, banner,
                   version, identified_service, probe_i, probe_resp, ssl_info, tls_met>>

\* version = self._extract_version(banner);
\* if version: result['version'] = version
ExtractVersion ==
    /\ dpc = "identified"
    /\ version' = _extract_version(banner.bytes)
    /\ dresult' = IF version' # ""
                  THEN [dresult EXCEPT !.version = version']
                  ELSE dresult
    /\ dpc' = "extracted"
    /\ UNCHANGED <<vars, evars, dport, common_service, banner,
                   service, identified_service, probe_i, probe_resp, ssl_info, tls_met>>

BannerNext == BannerAbsent \/ IdentifyFromBanner \/ ExtractVersion

BannerSpec == BannerInit /\ [][BannerNext]_allvars

----------------------------------------------------------------------------
\* The receive loops of _get_banner and get_http_headers.
\* The model keeps the length of what is accumulated, not the bytes.

\* _get_banner: `if len(banner) > 4096` and `s.recv(1024)`.
BannerLimit == 4096
BannerRecvSize == 1024

\* get_http_headers: `recv(4096)`.
ChunkSize == 4096

\* The loop of get_http_headers never branches on len(response) and the
\* length has no maximum: the model keeps it modulo this number.
HeaderLengthModulus == 32

\* The lengths one recv can return with data for each operation: at least
\* one byte and at most the size asked for.
RecvSizes(op) ==
    1..(IF op = "banner" THEN BannerRecvSize ELSE ChunkSize)

\* The size check after `+= data`: _get_banner breaks when the accumulated
\* length exceeds the limit, get_http_headers has no check.
OverLimit(op, len) == op = "banner" /\ len > BannerLimit

\* The number of data reads of a loop has no maximum either (every read may
\* return a single byte, and get_http_headers never stops reading): the
\* model keeps it modulo this number, so that every read that returns data
\* is a step that changes the state.
ReadsModulus == 2

\* The length the model keeps for the operation.
Tracked(op, len) ==
    IF op = "headers" THEN len % HeaderLengthModulus ELSE len

\* The operation is called; the connect (and, with use_ssl, the handshake)
\* fails, which the outer except turns into an empty return, or succeeds and
\* the receive loop starts with nothing accumulated.
ReadCall ==
    /\ rpc = "idle"
    /\ \E op \in {"banner", "headers"}, s \in BOOLEAN :
         /\ op = "banner" => ~s
         /\ rop' = op
         /\ use_ssl' = s
    /\ \E connected \in BOOLEAN :
         IF connected
         THEN rpc' = "reading" /\ rret' = ""
         ELSE rpc' = "returned" /\ rret' = "nothing"
    /\ rlen' = 0
    /\ reads' = 0
    /\ UNCHANGED <<vars, dvars, cvars, gvars, tpc, content, technologies>>

\* One recv of the loop returns data: it is appended and the size check, if
\* the operation has one, ends the loop.
RecvData ==
    /\ rpc = "reading"
    /\ \E n \in RecvSizes(rop) :
         /\ rlen' = Tracked(rop, rlen + n)
         /\ reads' = (reads + 1) % ReadsModulus
         /\ IF OverLimit(rop, rlen + n)
            THEN rpc' = "returned" /\ rret' = "value"
            ELSE UNCHANGED <<rpc, rret>>
    /\ UNCHANGED <<vars, dvars, cvars, gvars, tpc, content, technologies, rop, use_ssl>>

\* One recv returns b'': the peer has closed, `break`.
RecvClosed ==
    /\ rpc = "reading"
    /\ rpc' = "returned"
    /\ rret' = "value"
    /\ UNCHANGED <<vars, dvars, cvars, gvars, tpc, content, technologies, rop, use_ssl,
                   rlen, reads>>

\* One recv runs into its deadline: the plain branches catch socket.timeout
\* and keep what was accumulated, the use_ssl branches have no such handler
\* and the outer except returns nothing.
RecvTimeout ==
    /\ rpc = "reading"
    /\ rpc' = "returned"
    /\ rret' = IF use_ssl THEN "nothing" ELSE "value"
    /\ UNCHANGED <<vars, dvars, cvars, gvars, tpc, content, technologies, rop, use_ssl,
                   rlen, reads>>

\* One recv raises another error (connection reset): the outer except
\* returns nothing.
RecvError ==
    /\ rpc = "reading"
    /\ rpc' = "returned"
    /\ rret' = "nothing"
    /\ UNCHANGED <<vars, dvars, cvars, gvars, tpc, content, technologies, rop, use_ssl,
                   rlen, reads>>

ReadNext == ReadCall \/ RecvData \/ RecvClosed \/ RecvTimeout \/ RecvError

ReadInit ==
    /\ ScannerQuiet
    /\ DetectorIdle
    /\ ExtrasIdle

ReadSpec == ReadInit /\ [][ReadNext]_allvars

\* get_http_headers alone.
HeadersCall == ReadCall /\ rop' = "headers"

HeadersNext ==
    HeadersCall \/ RecvData \/ RecvClosed \/ RecvTimeout \/ RecvError

HeadersSpec == ReadInit /\ [][HeadersNext]_allvars

\* A recv that is pending returns: with data, with b'', by its deadline or
\* with an error. Nothing else is assumed: which of them happens is the
\* peer's choice, and whether the call is made at all is the caller's.
FairHeadersSpec ==
    HeadersSpec /\
    WF_allvars(RecvData \/ RecvClosed \/ RecvTimeout \/ RecvError)

----------------------------------------------------------------------------
\* ServiceDetector._identify_web_technologies.

\* tech_signatures, in the order of the dict.
tech_signatures ==
    << <<"WordPress", <<"wp-content", "wp-includes", "WordPress">> >>,
       <<"Joomla", <<"joomla", "Joomla">> >>,
       <<"Drupal", <<"Drupal.settings", "drupal">> >>,
       <<"Bootstrap",
         <<"bootstrap.css", "bootstrap.min.css", "bootstrap.js">> >>,
       <<"jQuery", <<"jquery.js", "jquery.min.js", "jQuery">> >>,
       <<"React",
         <<"react.js", "react-dom.js", "react.production.min.js">> >>,
       <<"Angular", <<"angular.js", "ng-app", "ng-controller">> >>,
       <<"Vue.js", <<"vue.js", "vue.min.js">> >>,
       <<"Laravel", <<"laravel", "Laravel">> >>,
       <<"Django", <<"django", "csrftoken">> >>,
       <<"ASP.NET", <<"__VIEWSTATE", "ASP.NET">> >>,
       <<"PHP", <<"php", "PHP">> >>,
       <<"Node.js", <<"node_modules", "Express">> >>,
       <<"Apache", <<"apache", "Apache">> >>,
       <<"Nginx", <<"nginx", "Nginx">> >>,
       <<"IIS", <<"IIS", "Microsoft-IIS">> >> >>

\* The elements of a sequence.
Range(seq) == {seq[i] : i \in 1..Len(seq)}

\* technologies[tech] = True: a key that is already there keeps its place.
DictSet(keys, key) == IF key \in Range(keys) THEN keys ELSE Append(keys, key)

\* The inner loop: the signatures looked for in the content, up to the first
\* one that occurs (`break`).
SignaturesTried(sigs, text) ==
    LET hits == {j \in 1..Len(sigs) : MatchesAny(<<sigs[j]>>, text)}
    IN IF hits = {} THEN Len(sigs)
       ELSE CHOOSE j \in hits : \A m \in hits : j <= m

\* The body of the inner loop for the first n signatures of a technology.
RECURSIVE AssignPerMatch(_, _, _, _, _)
AssignPerMatch(keys, tech, sigs, n, text) ==
    IF n = 0 THEN keys
    ELSE LET before == AssignPerMatch(keys, tech, sigs, n - 1, text)
         IN IF MatchesAny(<<sigs[n]>>, text)
            THEN DictSet(before, tech)
            ELSE before

\* A list in place of the dict: one entry per occurrence of a signature.
RECURSIVE AppendPerMatch(_, _, _, _, _)
AppendPerMatch(keys, tech, sigs, n, text) ==
    IF n = 0 THEN keys
    ELSE LET before == AppendPerMatch(keys, tech, sigs, n - 1, text)
         IN IF MatchesAny(<<sigs[n]>>, text)
            THEN Append(before, tech)
            ELSE before

\* An inner loop that appends to a list and has no break.
TryTechSignatures_List(keys, tech, sigs, text) ==
    AppendPerMatch(keys, tech, sigs, Len(sigs), text)

\* The inner loop for one technology: the signatures up to the first that
\* occurs are looked for, and the technology is assigned when one occurs.
TryTechSignatures(keys, tech, sigs, text) ==
    AssignPerMatch(keys, tech, sigs, SignaturesTried(sigs, text), text)

\* The outer loop over the first n technologies.
RECURSIVE TryTechnologies(_, _)
TryTechnologies(n, text) ==
    IF n = 0 THEN <<>>
    ELSE LET tech == tech_signatures[n][1]
             sigs == tech_signatures[n][2]
         IN TryTechSignatures(TryTechnologies(n - 1, text), tech, sigs, text)

\* ServiceDetector._identify_web_technologies: the keys of the dict returned.
_identify_web_technologies(text) ==
    TryTechnologies(Len(tech_signatures), text)

\* Pieces of a page body.
ContentFragments ==
    << "/wp-content/x.css ",
       "/wp-includes/jquery.min.js ",
       "WordPress 6.4 ",
       "<div ng-app> ",
       "Joomla! ",
       "csrftoken ",
       "<h1>It works</h1>" >>

\* The fragments of the set S, in order.
RECURSIVE Concat(_, _)
Concat(S, n) ==
    IF n = 0 THEN ""
    ELSE Concat(S, n - 1) \o (IF n \in S THEN ContentFragments[n] ELSE "")

\* The bodies the function is applied to.
ContentUniverse ==
    { Concat(S, Len(ContentFragments)) :
          S \in SUBSET (1..Len(ContentFragments)) }

TechInit ==
    /\ ScannerQuiet
    /\ DetectorIdle
    /\ tpc = "called"
    /\ content \in ContentUniverse
    /\ technologies = <<>>
    /\ rop = "none"
    /\ use_ssl = FALSE
    /\ rpc = "idle"
    /\ rlen = 0
    /\ reads = 0
    /\ rret = ""
    /\ GuiIdle
    /\ ConfigNone

\* technologies = self._identify_web_technologies(content)
IdentifyWebTechnologies ==
    /\ tpc = "called"
    /\ technologies' = _identify_web_technologies(content)
    /\ tpc' = "returned"
    /\ UNCHANGED <<vars, dvars, cvars, rvars, gvars, content>>

TechNext == IdentifyWebTechnologies

TechSpec == TechInit /\ [][TechNext]_allvars

----------------------------------------------------------------------------
\* The quick-scan and advanced-scan tabs: QuickScanTab, AdvancedScanTab and
\* their QThread workers.  Each tab owns a PortScanner.

\* The methods class PortScanner defines.
PortScannerMethods == {"scan_port", "scan_host", "stop_scan"}

\* getattr(self.scanner, name) succeeds.
HasMethod(name) == name \in PortScannerMethods

\* The method the worker thread of a tab calls on the scanner.
WorkerCalls(t) == IF t = "quick" THEN "scan_range" ELSE "advanced_scan"

\* The method stop_scan of a tab calls on the scanner.
StopCalls(t) == "stop_scanning"

\* The preset combo: the port range each index sets (index 0 sets none).
PresetRange(index) ==
    CASE index = 1 -> <<1, 1024>>
      [] index = 2 -> <<1, 65535>>
      [] index = 3 -> <<80, 8080>>
      [] OTHER -> <<start_port, end_port>>

\* What an exception that nothing catches may do to the process: Qt ends it
\* unless an exception hook is installed.
AfterUnhandled == {TRUE, FALSE}

\* QuickScanTab.preset_changed
PresetChanged ==
    /\ app_alive
    /\ \E index \in 0..3 :
         /\ start_port' = PresetRange(index)[1]
         /\ end_port' = PresetRange(index)[2]
    /\ UNCHANGED <<vars, dvars, cvars, rvars, tpc, content, technologies,
                   scan_button, stop_button, scan_thread, tab_stop_flag,
                   stop_clicked, total_ports, app_alive>>

\* start_scan of a tab, on a click of its enabled Start button: nothing
\* without a target, else the buttons are switched and the worker thread is
\* started.
StartScan(t) ==
    /\ app_alive
    /\ scan_button[t]
    /\ \E host \in {"", "192.0.2.1"} :
         IF host = ""
         THEN UNCHANGED <<scan_button, stop_button, scan_thread, total_ports>>
         ELSE /\ scan_button' = [scan_button EXCEPT ![t] = FALSE]
              /\ stop_button' = [stop_button EXCEPT ![t] = TRUE]
              /\ total_ports' = IF t = "quick"
                                THEN end_port - start_port + 1
                                ELSE total_ports
              /\ scan_thread' = [scan_thread EXCEPT ![t] = "running"]
    /\ UNCHANGED <<vars, dvars, cvars, rvars, tpc, content, technologies,
                   tab_stop_flag, stop_clicked, start_port, end_port,
                   app_alive>>

\* scan_complete of a tab.
ScanComplete(t) ==
    /\ scan_button' = [scan_button EXCEPT ![t] = TRUE]
    /\ stop_button' = [stop_button EXCEPT ![t] = FALSE]

\* run of the worker thread of a tab: the call on the scanner; when it
\* returns, scan_finished is emitted and scan_complete runs.  A missing
\* method raises AttributeError, which ends the thread with nothing emitted.
WorkerRun(t) ==
    /\ app_alive
    /\ scan_thread[t] = "running"
    /\ scan_thread' = [scan_thread EXCEPT ![t] = "finished"]
    /\ IF HasMethod(WorkerCalls(t))
       THEN ScanComplete(t) /\ UNCHANGED app_alive
       ELSE /\ app_alive' \in AfterUnhandled
            /\ UNCHANGED <<scan_button, stop_button>>
    /\ UNCHANGED <<vars, dvars, cvars, rvars, tpc, content, technologies,
                   tab_stop_flag, stop_clicked, start_port, end_port,
                   total_ports>>

\* stop_scan of a tab, on a click of its enabled Stop button: with a running
\* scan thread it calls the scanner's stop method, waits for the thread and
\* calls scan_complete.  A missing method raises AttributeError out of the
\* slot before anything else is done.
StopClicked(t) ==
    /\ app_alive
    /\ stop_button[t]
    /\ IF scan_thread[t] = "running"
       THEN IF HasMethod(StopCalls(t))
            THEN /\ tab_stop_flag' = [tab_stop_flag EXCEPT ![t] = TRUE]
                 /\ scan_thread' = [scan_thread EXCEPT ![t] = "finished"]
                 /\ ScanComplete(t)
                 /\ stop_clicked' = [stop_clicked EXCEPT ![t] = "done"]
                 /\ UNCHANGED app_alive
            ELSE /\ stop_clicked' = [stop_clicked EXCEPT ![t] = "raised"]
                 /\ app_alive' \in AfterUnhandled
                 /\ UNCHANGED <<tab_stop_flag, scan_thread, scan_button,
                                stop_button>>
       ELSE UNCHANGED <<tab_stop_flag, scan_thread, scan_button,
                        stop_button, stop_clicked, app_alive>>
    /\ UNCHANGED <<vars, dvars, cvars, rvars, tpc, content, technologies,
                   start_port, end_port, total_ports>>

GuiNext ==
    \/ PresetChanged
    \/ \E t \in Tabs : StartScan(t)
    \/ \E t \in Tabs : WorkerRun(t)
    \/ \E t \in Tabs : StopClicked(t)

GuiInit ==
    /\ ScannerQuiet
    /\ DetectorIdle
    /\ ExtrasIdle

GuiSpec == GuiInit /\ [][GuiNext]_allvars

----------------------------------------------------------------------------
\* ConfigManager: set, save_config, load_config and reset_to_defaults.

\* ConfigManager.set
ConfigSet ==
    /\ \E k \in ConfigKeys, v \in ConfigValues :
         config' = Updated(config, [x \in {k} |-> v])
    /\ last_call' = "set"
    /\ UNCHANGED <<vars, dvars, rvars, gvars, tpc, content, technologies,
                   config_file>>

\* ConfigManager.save_config
SaveConfig ==
    /\ config_file' = FileWith(config)
    /\ last_call' = "save_config"
    /\ UNCHANGED <<vars, dvars, rvars, gvars, tpc, content, technologies,
                   config>>

\* ConfigManager.reset_to_defaults: self._initialize(), then save_config().
ResetToDefaults ==
    /\ config' = _initialize(config_file)
    /\ config_file' = FileWith(config')
    /\ last_call' = "reset_to_defaults"
    /\ UNCHANGED <<vars, dvars, rvars, gvars, tpc, content, technologies>>

\* ConfigManager.load_config called on its own: the entries of the settings
\* file, if there is one, replace or extend those in memory.
LoadConfig ==
    /\ config' = load_config(config, config_file)
    /\ last_call' = "load_config"
    /\ UNCHANGED <<vars, dvars, rvars, gvars, tpc, content, technologies,
                   config_file>>

ConfigNext == ConfigSet \/ SaveConfig \/ LoadConfig \/ ResetToDefaults

ConfigInit ==
    /\ ScannerQuiet
    /\ DetectorIdle
    /\ tpc = "idle"
    /\ content = ""
    /\ technologies = <<>>
    /\ rop = "none"
    /\ use_ssl = FALSE
    /\ rpc = "idle"
    /\ rlen = 0
    /\ reads = 0
    /\ rret = ""
    /\ GuiIdle
    /\ ConfigIdle

ConfigSpec == ConfigInit /\ [][ConfigNext]_allvars

----------------------------------------------------------------------------
\* Properties of scan_host, scan_port and stop_scan.

Returned == pc_main = "returned"

DistinctPorts ==
    \A i, j \in 1..Len(results) : results[i].port = results[j].port => i = j

RECURSIVE SumTo(_, _)
SumTo(f, n) == IF n = 0 THEN 0 ELSE f[n] + SumTo(f, n - 1)

\* Workers for which scan_port has just returned.
Holding == {w \in Workers : wpc[w] = "acquire"}

\* C1: when stop_scan is not called during the scan (and no callback raises),
\* scan_host returns exactly one result per requested port: |P| results with
\* pairwise distinct ports whose port set is P, whatever the interleaving.
C1_OneResultPerPort ==
    (Returned /\ ~stopDuring /\ cbRaised = {}) =>
        /\ Len(results) = Len(ports)
        /\ DistinctPorts
        /\ ResultPorts = PortSet

\* An uninterrupted scan by two workers whose results arrived out of port order.
C1_Witness ==
    /\ Returned /\ ~stopDuring /\ cbRaised = {}
    /\ nthreads >= 2
    /\ Len(results) >= 2
    /\ results[1].port > results[2].port

\* C2: once the flag is set, a worker that has observed it dequeues nothing more
\* and has exited; each worker appends at most one result while the flag is set,
\* so at most min(max_threads, |ports|) results are appended after the stop.
C2_StopBoundsFurtherWork ==
    /\ \A w \in observed : wpc[w] = "exit"
    /\ \A w \in Workers : appAfterStop[w] <= 1
    /\ SumTo(appAfterStop, MaxThreads) <= Min(max_threads, Len(ports))

\* A worker whose dequeue raced with the stop finished that one port, then
\* observed the flag and exited with ports still queued.
C2_Witness ==
    /\ stopDuring
    /\ port_queue # <<>>
    /\ \E w \in observed : appAfterStop[w] = 1 /\ wpc[w] = "exit"

\* C3: in every state of a scan over M distinct ports the results hold at most
\* M entries and no two entries for the same port, stopped or not.
C3_AtMostOnePerPort ==
    /\ Len(results) <= Len(ports)
    /\ DistinctPorts
    /\ ResultPorts \subseteq PortSet

\* A scan stopped after some of its ports were dequeued returned fewer than M.
C3_Witness ==
    /\ Returned /\ stopDuring
    /\ Len(results) >= 1
    /\ Len(results) < Len(ports)

\* C4: once scan_host has returned, every worker it started has ended, the lock
\* is free, and nothing is appended, probed or called back any more.
C4_NoWorkOutlivesReturn ==
    /\ [](Returned =>
            /\ \A w \in 1..nthreads : wpc[w] \in {"exit", "dead"}
            /\ \A w \in Workers : w > nthreads => wpc[w] = "unstarted"
            /\ result_lock = 0)
    /\ [][Returned =>
            /\ results' = results
            /\ cbCount' = cbCount
            /\ wpc' = wpc
            /\ port_queue' = port_queue]_vars

\* A scan by two workers with a callback has returned with results.
C4_Witness ==
    /\ Returned
    /\ nthreads >= 2
    /\ callback = "given"
    /\ Len(results) >= 2

\* C5: under fair scheduling of the threads, a scan_host call that has started
\* returns, whether or not stop_scan is called.
C5_ScanHostReturns == (pc_main = "spawn") ~> Returned

\* A scan by two workers over several ports has run the queue empty and returned.
C5_Witness ==
    /\ Returned
    /\ nthreads >= 2
    /\ Len(ports) >= 2
    /\ port_queue = <<>>

\* C6: a connect attempt that succeeds is classified open, and one that the
\* peer refuses or resets is classified closed.
C6_OpenAndClosed ==
    \A w \in Holding :
        /\ conn[w] = "success" => wresult[w].state = "open"
        /\ conn[w] \in {"refused", "reset"} => wresult[w].state = "closed"

\* One worker holds an open result while the other holds a closed one of a reset.
C6_Witness ==
    \E v, w \in Holding :
        /\ conn[v] = "success" /\ wresult[v].state = "open"
        /\ conn[w] = "reset" /\ wresult[w].state = "closed"

\* C7: every connect failure other than refusal or reset (host unreachable,
\* name-resolution failure, connect timeout) is classified error, with a cause.
C7_OtherFailuresAreErrors ==
    \A w \in Holding :
        conn[w] \in {"unreachable", "timeout", "dns_failure"} =>
            /\ wresult[w].state = "error"
            /\ "error" \in DOMAIN wresult[w]
            /\ wresult[w].error # ""

\* C8: when the callback raises for some port and the scan is not stopped,
\* every other requested port still gets its result.
C8_FailureDoesNotLosePorts ==
    (Returned /\ ~stopDuring) => (PortSet \ cbRaised) \subseteq ResultPorts

\* C9: the result list only grows at its end, and what it held when stop_scan
\* was called is in the list that scan_host returns.
C9_ResultsOnlyGrow ==
    /\ [][IsPrefix(results, results')]_vars
    /\ [](Returned => IsPrefix(resultsAtStop, results))

\* A scan stopped with results in hand returned those and a later one.
C9_Witness ==
    /\ Returned /\ stopDuring
    /\ resultsAtStop # <<>>
    /\ Len(results) > Len(resultsAtStop)

\* C10: at most one worker is inside the critical section that appends, and on
\* return the number of results is the number of ports dequeued.
C10_MutualExclusion ==
    /\ Cardinality({w \in Workers : wpc[w] = "append"}) <= 1
    /\ \A w \in Workers : wpc[w] = "append" <=> result_lock = w
    /\ Returned => Len(results) = Len(ports) - Len(port_queue)

\* One worker is appending while another waits for the lock.
C10_Witness ==
    \E v, w \in Workers : wpc[v] = "append" /\ wpc[w] = "acquire"

\* All results, appended or still in a worker's hands.
AllResults ==
    {results[i] : i \in 1..Len(results)} \cup
    {wresult[w] : w \in {v \in Workers : wresult[v] # <<>>}}

\* C11: a supplied callback is invoked exactly once per appended result, by the
\* worker that produced it, after the append and before scan_host returns, so
\* results are delivered while the scan is still running; without a callback
\* nothing is invoked.
C11_CallbackOncePerResult ==
    /\ \A p \in PortUniverse :
          /\ cbCount[p] <= 1
          /\ cbCount[p] = 1 => p \in ResultPorts /\ callback = "given"
          /\ (p \in ResultPorts /\ callback = "given" /\ cbCount[p] = 0) =>
                \E w \in Workers : wpc[w] = "callback" /\ wport[w] = p
    /\ (Returned /\ callback = "given") =>
          \A p \in ResultPorts : cbCount[p] = 1

\* A result has been delivered to the callback while ports are still queued.
C11_Witness ==
    /\ ~Returned
    /\ port_queue # <<>>
    /\ \E p \in ResultPorts : cbCount[p] = 1

\* C12: exactly min(max_threads, |ports|) workers are spawned, and never more
\* than that many connect attempts are in flight.
C12_PoolSize ==
    /\ nthreads <= max_threads
    /\ nthreads <= Len(ports)
    /\ pc_main \in {"join", "returned"} =>
          (nthreads = max_threads \/ nthreads = Len(ports))
    /\ Cardinality({w \in Workers : wpc[w] = "scan"}) <= nthreads
    /\ \A w \in Workers : w > nthreads => wpc[w] = "unstarted"

\* A scan of one port with max_threads = 2 has returned, done by one worker.
C12_Witness ==
    /\ Returned
    /\ max_threads >= 2
    /\ Len(ports) = 1
    /\ nthreads = 1
    /\ Len(results) = 1

\* C14: a result carries the 'error' entry if and only if its state is 'error',
\* and its state is one of open, closed, error.
C14_ErrorDetailIffError ==
    \A r \in AllResults :
        /\ r.state \in {"open", "closed", "error"}
        /\ ("error" \in DOMAIN r) <=> (r.state = "error")

\* The results hold an entry with an error detail and an entry without.
C14_Witness ==
    /\ \E r \in AllResults : r.state = "error" /\ r.error # ""
    /\ \E r \in AllResults : r.state = "open" /\ "error" \notin DOMAIN r

\* C15: the service lookup is made only for open ports: a closed or error
\* result has had no lookup and its service is empty.
C15_ServiceOnlyForOpen ==
    /\ \A r \in AllResults : r.state # "open" => r.service = ""
    /\ \A p \in lookedUp :
          \E r \in AllResults : r.port = p /\ r.state = "open"

\* A refused port is in the results with no lookup, beside a port looked up.
C15_Witness ==
    /\ \E r \in AllResults :
          r.state = "closed" /\ r.service = "" /\ r.port \notin lookedUp
    /\ lookedUp # {}

\* What a scan of the ports P of the fixed host yields, whatever the order.
HostResults(P) == {scan_port(p, HostOutcome(p)) : p \in P}

\* C13: against a host whose per-port connect outcome is fixed, an uninterrupted
\* scan_host returns the same set of results for every max_threads (one worker
\* or several), differing at most in the order of the list.
C13_SameResultsForEveryPoolSize ==
    (Returned /\ ~stopDuring /\ cbRaised = {}) =>
        /\ {results[i] : i \in 1..Len(results)} = HostResults(PortSet)
        /\ Len(results) = Cardinality(HostResults(PortSet))

\* Two workers returned the results in another order than one worker would.
C13_Witness ==
    /\ Returned /\ ~stopDuring /\ cbRaised = {}
    /\ max_threads >= 2 /\ nthreads >= 2
    /\ Len(results) >= 2
    /\ results[1].port > results[2].port
    /\ results[1].state # results[2].state

----------------------------------------------------------------------------
\* Properties of detect_service.

\* detect_service has returned its result.
Done == dpc = "done"

\* The TLS stage was triggered and has run.
TlsRan == tls_met \in {"error", "no_cert", "ok"}

\* What the banner stage found in the banner it read, '' when there was none.
BannerMatch ==
    IF banner.some /\ banner.bytes # ""
    THEN _identify_from_banner(banner.bytes)
    ELSE ""

\* The service the port-table, banner and probe stages leave.
ServiceBeforeTls ==
    IF identified_service # "" THEN identified_service
    ELSE IF BannerMatch # "" THEN BannerMatch
    ELSE IF _detect_by_port(dport) # "" THEN _detect_by_port(dport)
    ELSE "unknown"

BaseKeys == {"service", "version", "banner", "protocol"}

SslKeys == {"ssl_version", "ssl_issuer", "ssl_subject"}

\* C16: the returned service is 'https' when the TLS stage obtained TLS
\* information, else the probe stage's match, else the banner-signature
\* match, else the port-table value, else 'unknown': a stage that yields
\* nothing leaves the earlier value.
C16_StagePrecedence ==
    Done => dresult.service =
              IF ssl_info # EmptyDict THEN "https" ELSE ServiceBeforeTls

\* A banner match overrides the port-table value, the probe stage finds
\* nothing and the earlier value survives it.
C16_Witness ==
    /\ Done
    /\ dport = 80
    /\ _detect_by_port(dport) = "http"
    /\ BannerMatch = "ssh"
    /\ identified_service = ""
    /\ ssl_info = EmptyDict
    /\ dresult.service = "ssh"

\* C17 as stated: whenever the TLS stage is triggered, the returned service
\* is 'https', whatever the earlier stages concluded.
C17_TriggeredMeansHttps == Done /\ TlsRan => dresult.service = "https"

\* C17, amended: whenever the TLS stage is triggered and _get_ssl_info
\* returns a non-empty result, the returned service is 'https', whatever the
\* earlier stages concluded.
C17_TlsInfoMeansHttps ==
    Done /\ TlsRan /\ ssl_info # EmptyDict => dresult.service = "https"

\* The earlier stages concluded 'ssh' and the TLS stage overrode it.
C17_Witness ==
    /\ Done
    /\ TlsRan
    /\ ssl_info # EmptyDict
    /\ ServiceBeforeTls = "ssh"
    /\ dresult.service = "https"

\* C18: when the TLS handshake succeeds, the returned record has service
\* 'https' and non-empty ssl_version, ssl_issuer and ssl_subject.
C18_TlsFieldsPopulated ==
    Done /\ tls_met = "ok" =>
        /\ dresult.service = "https"
        /\ SslKeys \subseteq DOMAIN dresult
        /\ dresult.ssl_version # ""
        /\ dresult.ssl_issuer # ""
        /\ dresult.ssl_subject # ""

\* C19: no stage's failure aborts detect_service; the returned record has a
\* non-empty service, a version, a banner and protocol 'tcp'; after a failed
\* TLS stage it has no ssl_* field and the service the earlier stages left.
C19_FailuresContributeNothing ==
    /\ dpc # "raised"
    /\ Done =>
        /\ BaseKeys \subseteq DOMAIN dresult
        /\ dresult.service # ""
        /\ dresult.protocol = "tcp"
        /\ tls_met \in {"error", "no_cert"} =>
             /\ DOMAIN dresult = BaseKeys
             /\ dresult.service = ServiceBeforeTls

\* Every stage failed: no banner, no probe connection answered, the TLS
\* connection raised.
C19_Witness ==
    /\ Done
    /\ banner = NoBytes
    /\ probe_i = Len(SERVICE_PROBES)
    /\ identified_service = ""
    /\ tls_met = "error"
    /\ dresult = [service |-> "https-alt", version |-> "",
                  banner |-> "", protocol |-> "tcp"]

\* C20: a step of the probe stage or of the TLS stage leaves banner, version
\* and protocol as the banner stage left them, and changes nothing but the
\* service and the ssl_* fields.
C20_LaterStagesKeepBanner ==
    [][(dpc \in {"probe", "probed", "tls"} =>
          (/\ dresult'.banner = dresult.banner
           /\ dresult'.version = dresult.version
           /\ dresult'.protocol = dresult.protocol
           /\ DOMAIN dresult' \subseteq (DOMAIN dresult \cup SslKeys)))]_allvars

\* The banner stage set banner and version, the probe stage and the TLS
\* stage both contributed, and banner and version are still there.
C20_Witness ==
    /\ Done
    /\ identified_service # ""
    /\ ssl_info # EmptyDict
    /\ dresult.banner = "SSH-2.0-OpenSSH_8.9"
    /\ dresult.version = "8.9"
    /\ dresult.ssl_version = "TLSv1.3"

----------------------------------------------------------------------------
\* Properties of _identify_from_banner and _extract_version.

\* Both functions have been applied to the banner.
Extracted == dpc = "extracted"

\* The positions at which needle occurs in hay, letter case ignored.
Occurrences(hay, needle) ==
    {i \in 1..(Len(hay) - Len(needle) + 1) :
        Lower(SubSeq(hay, i, i + Len(needle) - 1)) = Lower(needle)}

\* Some HTTP signature occurs in the banner.
HasHttpSignature(b) == MatchesAny(<<"HTTP", "<html", "<!DOCTYPE">>, b)

\* The first "OpenSSH_" of the banner is followed by "8.9" and then by
\* whitespace or the end of the banner.
FirstOpenSSHIs89(b) ==
    LET occ == Occurrences(b, "OpenSSH_") IN
    /\ occ # {}
    /\ LET i == CHOOSE a \in occ : \A c \in occ : a <= c
           j == i + Len("OpenSSH_")
       IN /\ j + 2 <= Len(b)
          /\ SubSeq(b, j, j + 2) = "8.9"
          /\ (j + 3 <= Len(b) => IsSpace(At(b, j + 3)))

\* C21 as stated: for any banner containing "SSH-2.0-OpenSSH_8.9" the banner
\* stage yields service 'ssh' and version '8.9'.
C21_OpenSSHBanner ==
    Extracted /\ Contains(banner.bytes, "SSH-2.0-OpenSSH_8.9") =>
        /\ service = "ssh" /\ version = "8.9"
        /\ dresult.service = "ssh" /\ dresult.version = "8.9"

\* C21, amended: for any banner containing "SSH-2.0-OpenSSH_8.9" in which no
\* HTTP signature and no "Server: " or "Version: " occurs (letter case
\* ignored) and whose first "OpenSSH_" is followed by "8.9" and then by
\* whitespace or the end of the banner, the banner stage yields service
\* 'ssh' and version '8.9'.
C21_PlainOpenSSHBanner ==
    (/\ Extracted
     /\ Contains(banner.bytes, "SSH-2.0-OpenSSH_8.9")
     /\ ~HasHttpSignature(banner.bytes)
     /\ Occurrences(banner.bytes, "Server: ") = {}
     /\ Occurrences(banner.bytes, "Version: ") = {}
     /\ FirstOpenSSHIs89(banner.bytes))
    => /\ service = "ssh" /\ version = "8.9"
       /\ dresult.service = "ssh" /\ dresult.version = "8.9"

\* The identification string follows an FTP greeting code and is followed by
\* more text on its line: 'ssh' precedes 'ftp' and the version ends at the
\* space.
C21_Witness ==
    /\ Extracted
    /\ banner.bytes = "220 SSH-2.0-OpenSSH_8.9 FTP\r\n"
    /\ service = "ssh"
    /\ version = "8.9"
    /\ dresult.service = "ssh"
    /\ dresult.version = "8.9"
    /\ dresult.banner = "220 SSH-2.0-OpenSSH_8.9 FTP"

\* C30: _identify_from_banner returns the first service in catalog order that
\* has a signature occurring case-insensitively in the banner, '' when none
\* has; it never returns 'https'.
C30_FirstInCatalogOrder ==
    dpc \in {"identified", "extracted"} =>
        /\ service # "https"
        /\ LET hits == {k \in 1..Len(SERVICE_SIGNATURES) :
                          \E j \in 1..Len(SERVICE_SIGNATURES[k][2]) :
                             Occurrences(banner.bytes,
                                         SERVICE_SIGNATURES[k][2][j]) # {}}
           IN IF hits = {} THEN service = ""
              ELSE /\ \E k \in hits : SERVICE_SIGNATURES[k][1] = service
                   /\ \A k \in hits, m \in 1..Len(SERVICE_SIGNATURES) :
                         SERVICE_SIGNATURES[m][1] = service => m <= k

\* A banner with signatures of http, https, ssh and ftp: 'http' wins.
C30_Witness ==
    /\ dpc = "identified"
    /\ HasHttpSignature(banner.bytes)
    /\ Occurrences(banner.bytes, "ssh") # {}
    /\ Occurrences(banner.bytes, "FTP") # {}
    /\ service = "http"

----------------------------------------------------------------------------
\* Properties of the receive loops.

\* C22: the banner _get_banner returns never exceeds 4096 bytes.
C22_BannerWithinLimit ==
    rop = "banner" /\ rpc = "returned" /\ rret = "value" => rlen <= BannerLimit

\* C23: whatever the peer sends, each reading operation that has started its
\* receive loop returns.
C23_ReadsReturn == (rpc = "reading") ~> (rpc = "returned")

\* Each recv of _get_banner that returns data and does not end the loop
\* leaves more accumulated than before, and never more than the limit: the
\* loop of _get_banner ends after at most BannerLimit + 1 reads.
BannerReadsBounded ==
    [][rop = "banner" /\ rpc = "reading" /\ rpc' = "reading" =>
          rlen < rlen' /\ rlen' <= BannerLimit]_allvars

----------------------------------------------------------------------------
\* Properties of _identify_web_technologies.

\* How many entries of the sequence equal x.
RECURSIVE CountOf(_, _)
CountOf(seq, x) ==
    IF seq = <<>> THEN 0
    ELSE (IF Head(seq) = x THEN 1 ELSE 0) + CountOf(Tail(seq), x)

\* C24: _identify_web_technologies reports each technology at most once, and
\* for a body containing "wp-content" it reports 'WordPress' exactly once.
C24_EachTechnologyOnce ==
    tpc = "returned" =>
        /\ \A t \in Range(technologies) : CountOf(technologies, t) = 1
        /\ Contains(content, "wp-content") =>
              CountOf(technologies, "WordPress") = 1

\* A body with all three WordPress signatures and another technology.
C24_Witness ==
    /\ tpc = "returned"
    /\ Contains(content, "wp-content")
    /\ Contains(content, "wp-includes")
    /\ Contains(content, "WordPress")
    /\ technologies = <<"WordPress", "jQuery">>

----------------------------------------------------------------------------
\* Properties of the scan tabs.

\* C25: after Stop was pressed in a tab while its scan thread was running,
\* the tab's PortScanner has its cancellation flag set, the scan thread has
\* finished and the tab is idle (Start enabled, Stop disabled).
C25_StopHaltsScan ==
    \A t \in Tabs :
        stop_clicked[t] # "no" =>
            /\ tab_stop_flag[t]
            /\ scan_thread[t] = "finished"
            /\ scan_button[t]
            /\ ~stop_button[t]

----------------------------------------------------------------------------
\* Properties of ConfigManager.

\* C26: after reset_to_defaults every configuration value equals its
\* built-in default, and the defaults are what the settings file holds.
C26_ResetRestoresDefaults ==
    last_call = "reset_to_defaults" =>
        /\ config = DefaultConfig
        /\ config_file = FileWith(DefaultConfig)

----------------------------------------------------------------------------
\* Properties of _probe_service.

\* The response the last candidate met holds one of that candidate's own
\* signatures, letter case ignored.
OwnSignatureIn(resp) ==
    /\ resp.kind = "data"
    /\ \E k \in 1..Len(SERVICE_SIGNATURES) :
          /\ SERVICE_SIGNATURES[k][1] = resp.candidate
          /\ \E j \in 1..Len(SERVICE_SIGNATURES[k][2]) :
                Occurrences(resp.bytes, SERVICE_SIGNATURES[k][2][j]) # {}

\* _probe_service has returned.
Probed == dpc \in {"probed", "tls", "done"}

\* The candidates are contacted in catalog order; a returned service is the
\* candidate contacted last, whose response holds one of its own signatures;
\* '' is returned only after the whole catalog.
ProbeResult ==
    /\ probe_i > 0 => probe_resp.candidate = SERVICE_PROBES[probe_i]
    /\ Probed /\ identified_service # "" =>
          /\ identified_service = probe_resp.candidate
          /\ OwnSignatureIn(probe_resp)
    /\ Probed /\ identified_service = "" =>
          /\ probe_i = Len(SERVICE_PROBES)
          /\ ~OwnSignatureIn(probe_resp)

\* A contact ends the loop exactly when its response matches, and once
\* _probe_service has returned no further candidate is contacted.
ProbeStep ==
    /\ dpc = "probe" /\ probe_i' = probe_i + 1 =>
          (OwnSignatureIn(probe_resp') <=> dpc' = "probed")
    /\ Probed => probe_i' = probe_i /\ probe_resp' = probe_resp

\* C27: _probe_service tries the candidates in catalog order and returns the
\* first whose response contains one of its own signatures; a failure or a
\* mismatch for one candidate does not stop the others, no candidate after
\* the first match is contacted, and '' is returned when none matches.
C27_FirstMatchingProbe == []ProbeResult /\ [][ProbeStep]_allvars

\* The first candidate did not match and the second one did: 'http' was
\* refused, 'https' got an HTTP response, and no third candidate was tried.
C27_Witness ==
    /\ dpc = "done"
    /\ probe_i = 2
    /\ identified_service = "https"
    /\ probe_resp.bytes = "HTTP/1.1 400 Bad Request\r\n\r\n"

----------------------------------------------------------------------------
\* Properties of the cancellation flag.

\* scan_host is running: it has cleared the flag and has not returned.
Running == pc_main \in {"spawn", "join"}

\* C28: once stop_scan() has set the flag while a scan_host call is running,
\* the flag stays set until that call returns, also when another scan_host
\* call is started on the same instance in the meantime.
C28_StopStaysSet ==
    [][(Running /\ stop_flag /\ pc_main' \in {"spawn", "join"})
          => stop_flag']_allvars

\* C29: scan_host clears the flag on entry.  A stop_scan() before the clear
\* is discarded: unless stop_scan() is called again after the clear, the flag
\* is clear while the scan runs, no worker observes it set, and the scan
\* returns a result for every port (when no callback raises).  A worker
\* observes the flag set only after a stop_scan() that followed the clear.
C29_StopBeforeClearDiscarded ==
    /\ Running /\ ~stopDuring => ~stop_flag
    /\ ~stopDuring => observed = {}
    /\ Returned /\ ~stopDuring /\ cbRaised = {} => ResultPorts = PortSet

\* stop_scan() was called before the scan started and not after; the scan
\* returned a result for each of its two ports.
C29_Witness ==
    /\ Returned
    /\ stopBefore
    /\ ~stopDuring
    /\ Len(ports) = 2
    /\ ResultPorts = PortSet

====
